---------------------------- MODULE Spec2Model ----------------------------
(***************************************************************************)
(* exif2geopackage.py: JPEG discovery, EXIF/GPS extraction, the parallel   *)
(* batch runner and the GeoPackage write.                                  *)
(*                                                                         *)
(* Conventions.                                                            *)
(*  - Python's None is the empty tuple <<>>; a present value x is <<x>>.   *)
(*  - A dict is a function whose DOMAIN is its key set; {} is <<>>.        *)
(*  - A decimal-degree value is held exactly as a whole number of          *)
(*    1/3600 degree, so d + m/60.0 + s/3600.0 is 3600*d + 60*m + s.        *)
(*  - A str on which the code does character work (file names, paths) is   *)
(*    a sequence of one-character strings.                                 *)
(*  - The outcome of a call is [exc, value]: exc = "" for a normal return. *)
(***************************************************************************)
EXTENDS Integers, Sequences, FiniteSets, TLC

VARIABLES
    \* --- one call of get_exif / get_geolocation / process_image
    u_file,      \* what PIL finds in the file under test
    u_exif,      \* None, or the return value of get_exif
    u_geo,       \* None, or the outcome of get_geolocation
    u_proc,      \* None, or the outcome of process_image
    \* --- find_jpegs
    tree,        \* directory path -> [dirs, files], what os.walk lists
    w_pc,        \* "idle" | "walk" | "returned"
    w_stack,     \* directories os.walk has still to yield, next first
    w_jpegs,     \* the list find_jpegs is building
    \* --- main / create_geopackage
    pc,          \* position of the main process
    disk,        \* path -> what PIL finds in that file
    jpegs,       \* the list find_jpegs returned
    futures,     \* the submitted futures, in submission order
    yielded,     \* indexes of the futures as_completed has yielded
    data,        \* the list create_geopackage collects
    progress,    \* tqdm's counter
    outfile,     \* the output file on disk
    writes,      \* calls of gdf.to_file
    console,     \* lines printed by the main process
    diag,        \* files for which a worker printed "Error reading EXIF..."
    exit_code    \* None while running, then the process's exit status

u_vars == <<u_file, u_exif, u_geo, u_proc>>
w_vars == <<tree, w_pc, w_stack, w_jpegs>>
b_vars == <<pc, disk, jpegs, futures, yielded, data, progress, outfile,
            writes, console, diag, exit_code>>
vars == <<u_vars, w_vars, b_vars>>

None == <<>>
Some(x) == <<x>>

---------------------------------------------------------------------------
(* PIL's tag tables, restricted to the tags the inputs below carry.        *)

TAGS == (271 :> "Make" @@ 34853 :> "GPSInfo")

GPSTAGS == (1 :> "GPSLatitudeRef" @@ 2 :> "GPSLatitude"
            @@ 3 :> "GPSLongitudeRef" @@ 4 :> "GPSLongitude")

\* dict.get(key): None when the key is missing
Get(d, k) == IF k \in DOMAIN d THEN Some(d[k]) ELSE None

\* Python truthiness of an optional tuple / an optional str
TruthyTuple(o) == o # None /\ Len(o[1]) > 0
TruthyStr(o) == o # None /\ o[1] # ""

Ok(v) == [exc |-> "", value |-> v]
Raise(e, v) == [exc |-> e, value |-> v]

---------------------------------------------------------------------------
(* get_exif                                                                *)

\* the inner loop over the GPS IFD: gps_data[GPSTAGS.get(t, t)] = value[t]
DecodeGps(value) ==
    [k \in {GPSTAGS[t] : t \in DOMAIN value} |->
        value[CHOOSE t \in DOMAIN value : GPSTAGS[t] = k]]

\* the loop over exif_info.items()
DecodeExif(exif_info) ==
    [k \in {TAGS[t] : t \in DOMAIN exif_info} |->
        LET t == CHOOSE t \in DOMAIN exif_info : TAGS[t] = k
        IN  IF k = "GPSInfo" THEN DecodeGps(exif_info[t]) ELSE exif_info[t]]

\* file.kind says how far PIL gets:
\*   "unopenable", "notimage": Image.open raises
\*   "noattr":    the image class has no _getexif
\*   "truncated": _getexif raises
\*   "noexif":    _getexif returns None
\*   "exif":      _getexif returns file.info
get_exif(filename, file) ==
    IF file.kind \in {"unopenable", "notimage", "truncated"}
    THEN [filename |-> filename, exif |-> None, printed |-> TRUE]
    ELSE [filename |-> filename,
          exif |-> Some(IF file.kind = "exif" THEN DecodeExif(file.info)
                        ELSE <<>>),
          printed |-> FALSE]

---------------------------------------------------------------------------
(* convert_to_degrees, get_geolocation, process_image                      *)

\* "d, m, s = value" raises ValueError unless value has three components
Unpacks(value) == Len(value) = 3

\* the seconds divided by 60 instead of 3600
convert_to_degrees_bad(value) ==
    3600 * value[1] + 60 * value[2] + 60 * value[3]

convert_to_degrees(value) == 3600 * value[1] + 60 * value[2] + value[3]

\* each coordinate resolved on its own, whatever the other one lacks
get_geolocation_partial(exif_data) ==
    IF "GPSInfo" \in DOMAIN exif_data
    THEN LET gps_info == exif_data["GPSInfo"]
             gps_latitude == Get(gps_info, "GPSLatitude")
             gps_latitude_ref == Get(gps_info, "GPSLatitudeRef")
             gps_longitude == Get(gps_info, "GPSLongitude")
             gps_longitude_ref == Get(gps_info, "GPSLongitudeRef")
             hasLat == TruthyTuple(gps_latitude) /\ TruthyStr(gps_latitude_ref)
             hasLon == TruthyTuple(gps_longitude) /\ TruthyStr(gps_longitude_ref)
         IN  IF \/ (hasLat /\ ~Unpacks(gps_latitude[1]))
                \/ (hasLon /\ ~Unpacks(gps_longitude[1]))
             THEN Raise("ValueError", <<None, None>>)
             ELSE Ok(<<IF hasLat
                       THEN Some(IF gps_latitude_ref[1] # "N"
                                 THEN 0 - convert_to_degrees(gps_latitude[1])
                                 ELSE convert_to_degrees(gps_latitude[1]))
                       ELSE None,
                       IF hasLon
                       THEN Some(IF gps_longitude_ref[1] # "E"
                                 THEN 0 - convert_to_degrees(gps_longitude[1])
                                 ELSE convert_to_degrees(gps_longitude[1]))
                       ELSE None>>)
    ELSE Ok(<<None, None>>)

get_geolocation(exif_data) ==
    IF "GPSInfo" \in DOMAIN exif_data
    THEN LET gps_info == exif_data["GPSInfo"]
             gps_latitude == Get(gps_info, "GPSLatitude")
             gps_latitude_ref == Get(gps_info, "GPSLatitudeRef")
             gps_longitude == Get(gps_info, "GPSLongitude")
             gps_longitude_ref == Get(gps_info, "GPSLongitudeRef")
         IN  IF /\ TruthyTuple(gps_latitude)
                /\ TruthyStr(gps_latitude_ref)
                /\ TruthyTuple(gps_longitude)
                /\ TruthyStr(gps_longitude_ref)
             THEN IF ~Unpacks(gps_latitude[1]) \/ ~Unpacks(gps_longitude[1])
                  THEN Raise("ValueError", <<None, None>>)
                  ELSE LET lat0 == convert_to_degrees(gps_latitude[1])
                           lat == IF gps_latitude_ref[1] # "N"
                                  THEN 0 - lat0 ELSE lat0
                           lon0 == convert_to_degrees(gps_longitude[1])
                           lon == IF gps_longitude_ref[1] # "E"
                                  THEN 0 - lon0 ELSE lon0
                       IN  Ok(<<Some(lat), Some(lon)>>)
             ELSE Ok(<<None, None>>)
    ELSE Ok(<<None, None>>)

Point(x, y) == <<x, y>>

\* Point(lat, lon): the axes swapped
process_image_swapped(filename, file) ==
    LET exif_data == get_exif(filename, file).exif
    IN  IF exif_data # None /\ DOMAIN exif_data[1] # {}
        THEN LET geo == get_geolocation(exif_data[1])
                 lat == geo.value[1]
                 lon == geo.value[2]
             IN  IF geo.exc # ""
                 THEN Raise(geo.exc, None)
                 ELSE IF lat # None /\ lon # None
                      THEN Ok(Some([geometry |-> Point(lat[1], lon[1]),
                                    filename |-> filename]))
                      ELSE Ok(None)
        ELSE Ok(None)

\* no "if exif_data": get_geolocation(None) raises TypeError
process_image_nocheck(filename, file) ==
    LET exif_data == get_exif(filename, file).exif
    IN  IF exif_data = None
        THEN Raise("TypeError", None)
        ELSE LET geo == get_geolocation(exif_data[1])
                 lat == geo.value[1]
                 lon == geo.value[2]
             IN  IF geo.exc # ""
                 THEN Raise(geo.exc, None)
                 ELSE IF lat # None /\ lon # None
                      THEN Ok(Some([geometry |-> Point(lon[1], lat[1]),
                                    filename |-> filename]))
                      ELSE Ok(None)

process_image(filename, file) ==
    LET exif_data == get_exif(filename, file).exif
    IN  IF exif_data # None /\ DOMAIN exif_data[1] # {}
        THEN LET geo == get_geolocation(exif_data[1])
                 lat == geo.value[1]
                 lon == geo.value[2]
             IN  IF geo.exc # ""
                 THEN Raise(geo.exc, None)
                 ELSE IF lat # None /\ lon # None
                      THEN Ok(Some([geometry |-> Point(lon[1], lat[1]),
                                    filename |-> filename]))
                      ELSE Ok(None)
        ELSE Ok(None)

\* whether the worker running process_image prints get_exif's diagnostic
Diagnoses(filename, file) == get_exif(filename, file).printed

---------------------------------------------------------------------------
(* find_jpegs                                                              *)

\* str.lower() on the ASCII letters
Uppers == <<"A", "B", "C", "D", "E", "F", "G", "H", "I", "J", "K", "L", "M",
            "N", "O", "P", "Q", "R", "S", "T", "U", "V", "W", "X", "Y", "Z">>
Lowers == <<"a", "b", "c", "d", "e", "f", "g", "h", "i", "j", "k", "l", "m",
            "n", "o", "p", "q", "r", "s", "t", "u", "v", "w", "x", "y", "z">>

LowerChar(c) ==
    IF \E i \in DOMAIN Uppers : Uppers[i] = c
    THEN Lowers[CHOOSE i \in DOMAIN Uppers : Uppers[i] = c]
    ELSE c

lower(s) == [i \in DOMAIN s |-> LowerChar(s[i])]

endswith(s, suffix) ==
    /\ Len(s) >= Len(suffix)
    /\ SubSeq(s, Len(s) - Len(suffix) + 1, Len(s)) = suffix

DotJpeg == <<".", "j", "p", "e", "g">>
DotJpg == <<".", "j", "p", "g">>

\* the suffix test without lower()
IsJpeg_NoLower(file) == endswith(file, DotJpeg) \/ endswith(file, DotJpg)

\* file.lower().endswith(".jpeg") or file.lower().endswith(".jpg")
IsJpeg(file) == endswith(lower(file), DotJpeg) \/ endswith(lower(file), DotJpg)

\* os.path.join(root, name) for a relative name
join(root, name) ==
    IF root # <<>> /\ root[Len(root)] = "/"
    THEN root \o name
    ELSE root \o <<"/">> \o name

JoinAll(root, names) == [i \in DOMAIN names |-> join(root, names[i])]

\* find_jpegs(root_folder) up to the first os.walk step
FindStart(root_folder) ==
    /\ w_pc = "idle"
    /\ w_pc' = "walk"
    /\ w_stack' = <<root_folder>>
    /\ w_jpegs' = <<>>
    /\ UNCHANGED <<tree, u_vars, b_vars>>

\* one (root, dirs, files) of os.walk, top-down, with the loop over files;
\* a directory scandir cannot list is skipped (os.walk's onerror is None)
FindStep ==
    /\ w_pc = "walk"
    /\ w_stack # <<>>
    /\ LET root == Head(w_stack)
       IN  IF root \in DOMAIN tree
           THEN /\ w_jpegs' = w_jpegs
                       \o JoinAll(root, SelectSeq(tree[root].files, IsJpeg))
                /\ w_stack' = JoinAll(root, tree[root].dirs) \o Tail(w_stack)
           ELSE /\ w_jpegs' = w_jpegs
                /\ w_stack' = Tail(w_stack)
    /\ UNCHANGED <<tree, w_pc, u_vars, b_vars>>

\* return jpegs
FindReturn ==
    /\ w_pc = "walk"
    /\ w_stack = <<>>
    /\ w_pc' = "returned"
    /\ UNCHANGED <<tree, w_stack, w_jpegs, u_vars, b_vars>>

---------------------------------------------------------------------------
(* main and create_geopackage: the main process, the pool's workers        *)

MaxWorkers == 2

Future(fn) == [fn |-> fn, state |-> "PENDING", outcome |-> None]

Indexes == DOMAIN futures

Running == {i \in Indexes : futures[i].state = "RUNNING"}

\* a worker process died: the executor is broken for good
Broken ==
    \E i \in Indexes :
        /\ futures[i].outcome # None
        /\ futures[i].outcome[1].exc = "BrokenProcessPool"

Line(msg, n) == [msg |-> msg, n |-> n]

\* main: jpegs = find_jpegs(...); print(f"Found {len(jpegs)} JPEG files.");
\* create_geopackage: data = []; the executor is created
MainFound ==
    /\ pc = "main"
    /\ console' = Append(console, Line("Found JPEG files.", Len(jpegs)))
    /\ pc' = "submit"
    /\ UNCHANGED <<disk, jpegs, futures, yielded, data, progress, outfile,
                   writes, diag, exit_code, u_vars, w_vars>>

\* one executor.submit(process_image, jpeg) of the dict comprehension; on a
\* broken executor submit raises
Submit ==
    /\ pc = "submit"
    /\ Len(futures) < Len(jpegs)
    /\ IF Broken
       THEN /\ pc' = "unwind"
            /\ UNCHANGED futures
       ELSE /\ futures' = Append(futures, Future(jpegs[Len(futures) + 1]))
            /\ UNCHANGED pc
    /\ UNCHANGED <<disk, jpegs, yielded, data, progress, outfile, writes,
                   console, diag, exit_code, u_vars, w_vars>>

\* every jpeg is submitted: the loop over as_completed(futures) starts
StartCollect ==
    /\ pc = "submit"
    /\ Len(futures) = Len(jpegs)
    /\ pc' = "collect"
    /\ UNCHANGED <<disk, jpegs, futures, yielded, data, progress, outfile,
                   writes, console, diag, exit_code, u_vars, w_vars>>

\* a free worker process takes the next pending task of the queue
WorkerStart(i) ==
    /\ futures[i].state = "PENDING"
    /\ \A j \in Indexes : futures[j].state = "PENDING" => i <= j
    /\ Cardinality(Running) < MaxWorkers
    /\ futures' = [futures EXCEPT ![i].state = "RUNNING"]
    /\ UNCHANGED <<pc, disk, jpegs, yielded, data, progress, outfile, writes,
                   console, diag, exit_code, u_vars, w_vars>>

\* the worker runs process_image(jpeg) to its end; what it returned or
\* raised is stored in the future
WorkerFinish(i) ==
    /\ futures[i].state = "RUNNING"
    /\ futures' = [futures EXCEPT
                     ![i].state = "FINISHED",
                     ![i].outcome =
                         Some(process_image(futures[i].fn, disk[futures[i].fn]))]
    /\ diag' = IF Diagnoses(futures[i].fn, disk[futures[i].fn])
               THEN diag \cup {futures[i].fn} ELSE diag
    /\ UNCHANGED <<pc, disk, jpegs, yielded, data, progress, outfile, writes,
                   console, exit_code, u_vars, w_vars>>

\* the worker process dies under its task: every future not yet finished
\* ends with BrokenProcessPool
WorkerCrash(i) ==
    /\ futures[i].state = "RUNNING"
    /\ futures' = [j \in Indexes |->
                     IF futures[j].state = "FINISHED"
                     THEN futures[j]
                     ELSE [futures[j] EXCEPT
                             !.state = "FINISHED",
                             !.outcome = Some(Raise("BrokenProcessPool", None))]]
    /\ UNCHANGED <<pc, disk, jpegs, yielded, data, progress, outfile, writes,
                   console, diag, exit_code, u_vars, w_vars>>

\* the record filed under the jpeg at the completion's position in the list
Collect_ByPosition(i) ==
    /\ pc = "collect"
    /\ i \notin yielded
    /\ futures[i].state = "FINISHED"
    /\ yielded' = yielded \cup {i}
    /\ progress' = progress + 1
    /\ LET result == futures[i].outcome[1]
       IN  IF result.exc # ""
           THEN /\ pc' = "unwind"
                /\ UNCHANGED data
           ELSE /\ data' = IF result.value # None
                           THEN Append(data,
                                    [result.value[1] EXCEPT
                                       !.filename = jpegs[progress + 1]])
                           ELSE data
                /\ UNCHANGED pc
    /\ UNCHANGED <<disk, jpegs, futures, outfile, writes, console, diag,
                   exit_code, u_vars, w_vars>>

\* future.result() wrapped in try/except: a fault is skipped
Collect_Swallow(i) ==
    /\ pc = "collect"
    /\ i \notin yielded
    /\ futures[i].state = "FINISHED"
    /\ yielded' = yielded \cup {i}
    /\ progress' = progress + 1
    /\ LET result == futures[i].outcome[1]
       IN  data' = IF result.exc = "" /\ result.value # None
                   THEN Append(data, result.value[1]) ELSE data
    /\ UNCHANGED <<pc, disk, jpegs, futures, outfile, writes, console, diag,
                   exit_code, u_vars, w_vars>>

\* one turn of "for future in tqdm(as_completed(futures))":
\* result = future.result(); if result: data.append(result)
Collect(i) ==
    /\ pc = "collect"
    /\ i \notin yielded
    /\ futures[i].state = "FINISHED"
    /\ yielded' = yielded \cup {i}
    /\ progress' = progress + 1
    /\ LET result == futures[i].outcome[1]
       IN  IF result.exc # ""
           THEN /\ pc' = "unwind"
                /\ UNCHANGED data
           ELSE /\ data' = IF result.value # None
                           THEN Append(data, result.value[1]) ELSE data
                /\ UNCHANGED pc
    /\ UNCHANGED <<disk, jpegs, futures, outfile, writes, console, diag,
                   exit_code, u_vars, w_vars>>

\* the loop left after the first completion, without joining the workers
LeavePool_Early ==
    /\ pc = "collect"
    /\ yielded # {}
    /\ pc' = "write"
    /\ UNCHANGED <<disk, jpegs, futures, yielded, data, progress, outfile,
                   writes, console, diag, exit_code, u_vars, w_vars>>

\* the loop is over and the with block is left: shutdown(wait=True)
LeavePool ==
    /\ pc = "collect"
    /\ yielded = Indexes
    /\ pc' = "write"
    /\ UNCHANGED <<disk, jpegs, futures, yielded, data, progress, outfile,
                   writes, console, diag, exit_code, u_vars, w_vars>>

\* the write without "if data"
WriteDataset_Always ==
    /\ pc = "write"
    /\ outfile' = [kind |-> "gpkg", crs |-> "EPSG:4326", rows |-> data]
    /\ writes' = writes + 1
    /\ pc' = "created"
    /\ UNCHANGED <<disk, jpegs, futures, yielded, data, progress, console,
                   diag, exit_code, u_vars, w_vars>>

\* if data: gpd.GeoDataFrame(data, crs="EPSG:4326").to_file(output_file)
WriteDataset ==
    /\ pc = "write"
    /\ IF data # <<>>
       THEN /\ outfile' = [kind |-> "gpkg", crs |-> "EPSG:4326", rows |-> data]
            /\ writes' = writes + 1
       ELSE UNCHANGED <<outfile, writes>>
    /\ pc' = "created"
    /\ UNCHANGED <<disk, jpegs, futures, yielded, data, progress, console,
                   diag, exit_code, u_vars, w_vars>>

\* main: print("Geopackage has been created."), and the process exits 0
MainDone ==
    /\ pc = "created"
    /\ console' = Append(console, Line("Geopackage has been created.", 0))
    /\ exit_code' = Some(0)
    /\ pc' = "done"
    /\ UNCHANGED <<disk, jpegs, futures, yielded, data, progress, outfile,
                   writes, diag, u_vars, w_vars>>

\* an exception leaves the with block: shutdown(wait=True) joins the
\* workers, then the exception leaves create_geopackage and main, and the
\* process exits 1
Unwind ==
    /\ pc = "unwind"
    /\ \A i \in Indexes : futures[i].state = "FINISHED"
    /\ exit_code' = Some(1)
    /\ pc' = "failed"
    /\ UNCHANGED <<disk, jpegs, futures, yielded, data, progress, outfile,
                   writes, console, diag, u_vars, w_vars>>

---------------------------------------------------------------------------
(* The files one call is tried on.                                         *)

MaxComp == 2

Comp == 0 .. MaxComp

\* well-formed (d, m, s) triples, and tuples PIL can hand over for a GPS
\* coordinate tag of a damaged IFD: empty, two or four components
Triples == [1 .. 3 -> Comp]
Tuples == Triples \cup {<<>>} \cup {<<c, c>> : c \in Comp}
                  \cup {<<c, c, c, c>> : c \in Comp}

\* reference strings; "" is an ASCII tag holding only its NUL terminator
LatRefs == {"N", "S", "n", ""}
LonRefs == {"E", "W", "e", ""}

Opt(S) == {None} \cup {Some(x) : x \in S}

\* the optional entry of a dict
Entry(k, o) == IF o = None THEN <<>> ELSE k :> o[1]

GpsIfd(la, lar, lo, lor) ==
    Entry(1, lar) @@ Entry(2, la) @@ Entry(3, lor) @@ Entry(4, lo)

ExifFile(info) == [kind |-> "exif", info |-> info]
PlainFile(kind) == [kind |-> kind, info |-> <<>>]

NoExifKinds == {"unopenable", "notimage", "truncated", "noattr", "noexif"}

UnitName == <<"p", ".", "j", "p", "g">>

UInit ==
    /\ \/ \E kind \in NoExifKinds : u_file = PlainFile(kind)
       \/ \E make \in BOOLEAN :
             u_file = ExifFile(Entry(271, IF make THEN Some("cam") ELSE None))
       \/ \E make \in BOOLEAN, la \in Opt(Tuples), lar \in Opt(LatRefs),
             lo \in Opt(Tuples), lor \in Opt(LonRefs) :
             u_file = ExifFile(
                 Entry(271, IF make THEN Some("cam") ELSE None)
                 @@ (34853 :> GpsIfd(la, lar, lo, lor)))
    /\ u_exif = None
    /\ u_geo = None
    /\ u_proc = None

CallGetExif ==
    /\ u_exif = None
    /\ u_exif' = Some(get_exif(UnitName, u_file))
    /\ UNCHANGED <<u_file, u_geo, u_proc, w_vars, b_vars>>

\* get_geolocation takes a dict: it is tried on every dict get_exif returned
CallGetGeolocation ==
    /\ u_exif # None
    /\ u_exif[1].exif # None
    /\ u_geo = None
    /\ u_geo' = Some(get_geolocation(u_exif[1].exif[1]))
    /\ UNCHANGED <<u_file, u_exif, u_proc, w_vars, b_vars>>

CallProcessImage ==
    /\ u_proc = None
    /\ u_proc' = Some(process_image(UnitName, u_file))
    /\ UNCHANGED <<u_file, u_exif, u_geo, w_vars, b_vars>>

WIdle ==
    /\ tree = <<>>
    /\ w_pc = "idle"
    /\ w_stack = <<>>
    /\ w_jpegs = <<>>

BIdle ==
    /\ pc = "idle"
    /\ disk = <<>>
    /\ jpegs = <<>>
    /\ futures = <<>>
    /\ yielded = {}
    /\ data = <<>>
    /\ progress = 0
    /\ outfile = <<>>
    /\ writes = 0
    /\ console = <<>>
    /\ diag = {}
    /\ exit_code = None

UNext ==
    \/ CallGetExif
    \/ CallGetGeolocation
    \/ CallProcessImage

InitUnit == UInit /\ WIdle /\ BIdle

SpecUnit == InitUnit /\ [][UNext]_vars

---------------------------------------------------------------------------
(* The directory trees find_jpegs is tried on.                             *)

MaxDepth == 1

a_jpg == <<"a", ".", "j", "p", "g">>
b_JPEG == <<"b", ".", "J", "P", "E", "G">>
c_png == <<"c", ".", "p", "n", "g">>
d_jpg == <<"d", ".", "j", "p", "g">>
jpg == <<"j", "p", "g">>
sub == <<"s", "u", "b">>
x_jpg == <<"x", ".", "j", "p", "g">>

\* the order in which scandir lists the names that exist
ScanOrder == <<a_jpg, b_JPEG, c_png, d_jpg, jpg>>
FileNames == {ScanOrder[i] : i \in DOMAIN ScanOrder}

Listing(names) == SelectSeq(ScanOrder, LAMBDA n : n \in names)

RootFolder == <<"r">>

RECURSIVE SubDir(_)
SubDir(k) == IF k = 0 THEN RootFolder ELSE join(SubDir(k - 1), sub)

XDir == join(RootFolder, x_jpg)

\* a chain r, r/sub, r/sub/sub, ... of depth levels, level k holding the
\* files held[k]; with x > 0 also a directory r/x.jpg, holding a.jpg when
\* x = 2
Tree(depth, held, x) ==
    [p \in {SubDir(k) : k \in 0 .. depth} \cup (IF x > 0 THEN {XDir} ELSE {})
     |->
        IF p = XDir
        THEN [dirs |-> <<>>,
              files |-> IF x = 2 THEN <<a_jpg>> ELSE <<>>]
        ELSE LET k == CHOOSE k \in 0 .. depth : SubDir(k) = p
             IN  [dirs |-> (IF k = 0 /\ x > 0 THEN <<x_jpg>> ELSE <<>>)
                           \o (IF k < depth THEN <<sub>> ELSE <<>>),
                  files |-> Listing(held[k])]]

UIdle ==
    /\ u_file = <<>>
    /\ u_exif = None
    /\ u_geo = None
    /\ u_proc = None

WInit ==
    /\ \/ tree = <<>>
       \/ \E depth \in 0 .. MaxDepth :
             \E held \in [0 .. depth -> SUBSET FileNames], x \in 0 .. 2 :
                tree = Tree(depth, held, x)
    /\ w_pc = "idle"
    /\ w_stack = <<>>
    /\ w_jpegs = <<>>

WNext ==
    \/ FindStart(RootFolder)
    \/ FindStep
    \/ FindReturn

InitFind == UIdle /\ WInit /\ BIdle

SpecFind == InitFind /\ [][WNext]_vars

---------------------------------------------------------------------------
(* The runs of main.                                                       *)

MaxFiles == 2

\* a.jpg, aa.jpg, aaa.jpg, ... under the root folder
RECURSIVE Stem(_)
Stem(i) == IF i = 0 THEN <<>> ELSE <<"a">> \o Stem(i - 1)

PathOf(i) == join(RootFolder, Stem(i) \o DotJpg)

Gps(la, lar, lo, lor) ==
    ExifFile((271 :> "cam")
             @@ (34853 :> GpsIfd(Some(la), Some(lar), Some(lo), Some(lor))))

NorthEast == Gps(<<1, 2, 0>>, "N", <<2, 0, 1>>, "E")
SouthWest == Gps(<<0, 1, 2>>, "S", <<1, 1, 1>>, "W")
\* GPSLongitudeRef is missing
Partial ==
    ExifFile((271 :> "cam")
             @@ (34853 :> GpsIfd(Some(<<1, 2, 0>>), Some("N"),
                                 Some(<<2, 0, 1>>), None)))
\* GPSLatitude has two components
Malformed == Gps(<<1, 2>>, "N", <<2, 0, 1>>, "E")
\* GPSLatitudeRef holds the empty string
EmptyRef == Gps(<<1, 2, 0>>, "", <<2, 0, 1>>, "E")
NoGps == ExifFile(271 :> "cam")

BadFiles == {PlainFile("unopenable"), PlainFile("notimage"),
             PlainFile("truncated")}

BatchFiles == BadFiles \cup {PlainFile("noexif"), NoGps, Partial, NorthEast,
                             SouthWest, Malformed, EmptyRef}

Absent == [kind |-> "absent", crs |-> "", rows |-> <<>>]
Stale == [kind |-> "stale", crs |-> "", rows |-> <<>>]

BInit ==
    /\ pc = "main"
    /\ \E n \in 0 .. MaxFiles :
          LET paths == {PathOf(i) : i \in 1 .. n}
          IN  /\ jpegs \in {s \in [1 .. n -> paths] :
                               \A i, j \in 1 .. n : s[i] = s[j] => i = j}
              /\ disk \in [paths -> BatchFiles]
    /\ futures = <<>>
    /\ yielded = {}
    /\ data = <<>>
    /\ progress = 0
    /\ outfile \in {Absent, Stale}
    /\ writes = 0
    /\ console = <<>>
    /\ diag = {}
    /\ exit_code = None

Init == UIdle /\ WIdle /\ BInit

Next ==
    \/ MainFound
    \/ Submit
    \/ StartCollect
    \/ \E i \in Indexes : WorkerStart(i)
    \/ \E i \in Indexes : WorkerFinish(i)
    \/ \E i \in Indexes : WorkerCrash(i)
    \/ \E i \in Indexes : Collect(i)
    \/ LeavePool
    \/ WriteDataset
    \/ MainDone
    \/ Unwind

Spec == Init /\ [][Next]_vars

---------------------------------------------------------------------------
(* What the claims say of a file, stated on the raw EXIF tags              *)
(* (1 GPSLatitudeRef, 2 GPSLatitude, 3 GPSLongitudeRef, 4 GPSLongitude).   *)

D(t) == 3600 * t[1] + 60 * t[2] + t[3]

HasFourTags(file) ==
    /\ file.kind = "exif"
    /\ 34853 \in DOMAIN file.info
    /\ {1, 2, 3, 4} \subseteq DOMAIN file.info[34853]

Geotagged(file) ==
    /\ HasFourTags(file)
    /\ Len(file.info[34853][2]) = 3
    /\ Len(file.info[34853][4]) = 3
    /\ file.info[34853][1] # ""
    /\ file.info[34853][3] # ""

LatOf(file) ==
    IF file.info[34853][1] = "N"
    THEN D(file.info[34853][2]) ELSE 0 - D(file.info[34853][2])

LonOf(file) ==
    IF file.info[34853][3] = "E"
    THEN D(file.info[34853][4]) ELSE 0 - D(file.info[34853][4])

RecordOf(f) == [geometry |-> <<LonOf(disk[f]), LatOf(disk[f])>>, filename |-> f]

Discovered == {jpegs[i] : i \in DOMAIN jpegs}

Rows(rows) == {rows[i] : i \in DOMAIN rows}

Unwritten == outfile \in {Absent, Stale} /\ writes = 0

Printed(msg) == \E i \in DOMAIN console : console[i].msg = msg

\* the dict get_geolocation was called with, and what the claims read in it
GeoArg == u_exif[1].exif[1]

GpsKeys == {"GPSLatitude", "GPSLatitudeRef", "GPSLongitude", "GPSLongitudeRef"}

HasFourFields(d) ==
    /\ "GPSInfo" \in DOMAIN d
    /\ GpsKeys \subseteq DOMAIN d["GPSInfo"]

WellFormed(d) ==
    /\ HasFourFields(d)
    /\ Len(d["GPSInfo"]["GPSLatitude"]) = 3
    /\ Len(d["GPSInfo"]["GPSLongitude"]) = 3

SignedLat(d) ==
    IF d["GPSInfo"]["GPSLatitudeRef"] = "N"
    THEN D(d["GPSInfo"]["GPSLatitude"]) ELSE 0 - D(d["GPSInfo"]["GPSLatitude"])

SignedLon(d) ==
    IF d["GPSInfo"]["GPSLongitudeRef"] = "E"
    THEN D(d["GPSInfo"]["GPSLongitude"])
    ELSE 0 - D(d["GPSInfo"]["GPSLongitude"])

---------------------------------------------------------------------------
(* Claims                                                                  *)

\* C1: a run of create_geopackage that ends without a fault has collected,
\* and when there is one written, exactly one record per discovered file
\* with valid GPS metadata and none for any other file; each record is the
\* point (longitude, latitude) of its file with that file's path.
C1_OneRecordPerGeotaggedFile ==
    pc \in {"created", "done"} =>
        LET K == {f \in Discovered : Geotagged(disk[f])}
        IN  /\ Len(data) = Cardinality(K)
            /\ Rows(data) = {RecordOf(f) : f \in K}
            /\ K # {} => /\ outfile.kind = "gpkg"
                         /\ outfile.crs = "EPSG:4326"
                         /\ outfile.rows = data

\* C1 witness: two files, one of them geotagged, one row written
C1_Witness ==
    /\ pc = "done"
    /\ Len(jpegs) = 2
    /\ Cardinality({f \in Discovered : Geotagged(disk[f])}) = 1
    /\ outfile.kind = "gpkg"
    /\ Len(outfile.rows) = 1

\* C2: process_image never raises: whatever fails inside it, it returns
\* None. (Refuted: a GPS coordinate that is not a triple raises ValueError.)
C2_WorkerNeverRaises ==
    u_proc # None => u_proc[1].exc = ""

\* C3: a file that cannot be opened, is no image or is truncated ends as
\* (filename, None) with a diagnostic and without a record or a fault; a run
\* is aborted only by a fault that is not of such a file, and a run with such
\* a file that ends still holds the record of every geotagged file.
C3_BadFileIsSkipped ==
    /\ \A i \in Indexes :
          (futures[i].state = "FINISHED" /\ disk[futures[i].fn] \in BadFiles
           /\ futures[i].outcome[1].exc # "BrokenProcessPool")
          => /\ futures[i].outcome[1] = Ok(None)
             /\ futures[i].fn \in diag
             /\ get_exif(futures[i].fn, disk[futures[i].fn]).exif = None
    /\ pc \in {"unwind", "failed"} =>
          \/ Broken
          \/ \E i \in yielded :
                /\ futures[i].outcome[1].exc # ""
                /\ disk[futures[i].fn] \notin BadFiles
    /\ (pc = "done" /\ \E f \in Discovered : disk[f] \in BadFiles) =>
          Rows(data) = {RecordOf(f) : f \in {g \in Discovered : Geotagged(disk[g])}}

\* C3 witness: a truncated file and a geotagged file, the run ended and the
\* geotagged file's record is written
C3_Witness ==
    /\ pc = "done"
    /\ Len(jpegs) = 2
    /\ disk[jpegs[1]] = PlainFile("truncated")
    /\ jpegs[1] \in diag
    /\ disk[jpegs[2]] = SouthWest
    /\ outfile.kind = "gpkg"
    /\ outfile.rows = <<RecordOf(jpegs[2])>>

\* C4: with no record collected the write is skipped: the output file is
\* left as it was, nothing is raised, and the run ends normally.
C4_EmptySkipsWrite ==
    /\ []((pc \in {"created", "done"} /\ data = <<>>) => Unwritten)
    /\ []((pc = "done" /\ data = <<>>) =>
             exit_code = Some(0) /\ Printed("Geopackage has been created."))
    /\ [][(pc = "write" /\ data = <<>>) =>
             (outfile' = outfile /\ writes' = writes /\ pc' = "created")]_vars

\* C4 witness: two files without GPS data, a stale output file left alone
C4_Witness ==
    /\ pc = "done"
    /\ Len(jpegs) = 2
    /\ data = <<>>
    /\ outfile = Stale
    /\ exit_code = Some(0)

\* C5: without GPSInfo, or with any of the four GPS fields missing,
\* get_geolocation returns (None, None); whenever it returns, both
\* coordinates are None or neither is.
C5_NoLocationUnlessComplete ==
    u_geo # None =>
        /\ ~HasFourFields(GeoArg) => u_geo[1] = Ok(<<None, None>>)
        /\ u_geo[1].exc = "" =>
              ((u_geo[1].value[1] = None) <=> (u_geo[1].value[2] = None))

\* C5 witness: only GPSLongitudeRef is missing
C5_Witness ==
    /\ u_geo # None
    /\ "GPSInfo" \in DOMAIN GeoArg
    /\ DOMAIN GeoArg["GPSInfo"] = GpsKeys \ {"GPSLongitudeRef"}
    /\ Len(GeoArg["GPSInfo"]["GPSLatitude"]) = 3
    /\ GeoArg["GPSInfo"]["GPSLatitudeRef"] = "N"
    /\ Len(GeoArg["GPSInfo"]["GPSLongitude"]) = 3
    /\ u_geo[1] = Ok(<<None, None>>)

\* C6 as stated: with the four GPS fields present (and three-component
\* triples) get_geolocation returns D(lat) for the reference "N" and -D(lat)
\* for every other reference value, D(lon) for "E" and -D(lon) for every
\* other one.
C6_AnyOtherReferenceNegates ==
    (u_geo # None /\ WellFormed(GeoArg)) =>
        u_geo[1] = Ok(<<Some(SignedLat(GeoArg)), Some(SignedLon(GeoArg))>>)

\* C6 amended: the same for every reference value but the empty string;
\* with an empty reference get_geolocation returns (None, None).
C6_NonEmptyReferenceSigns ==
    (u_geo # None /\ WellFormed(GeoArg)) =>
        IF \/ GeoArg["GPSInfo"]["GPSLatitudeRef"] = ""
           \/ GeoArg["GPSInfo"]["GPSLongitudeRef"] = ""
        THEN u_geo[1] = Ok(<<None, None>>)
        ELSE u_geo[1] = Ok(<<Some(SignedLat(GeoArg)), Some(SignedLon(GeoArg))>>)

\* C6 witness: references other than "N" and "E", both values negated
C6_Witness ==
    /\ u_geo # None
    /\ WellFormed(GeoArg)
    /\ GeoArg["GPSInfo"]["GPSLatitude"] = <<2, 1, 2>>
    /\ GeoArg["GPSInfo"]["GPSLatitudeRef"] = "S"
    /\ GeoArg["GPSInfo"]["GPSLongitude"] = <<1, 0, 2>>
    /\ GeoArg["GPSInfo"]["GPSLongitudeRef"] = "e"
    /\ u_geo[1] = Ok(<<Some(0 - 7262), Some(0 - 3602)>>)

\* C7: whatever the order of the file list and the order in which the tasks
\* complete, a run that ends without a fault has collected the same set of
\* records: the results of process_image on the set of discovered files.
C7_OrderIndependent ==
    pc \in {"created", "done"} =>
        Rows(data) =
            {process_image(f, disk[f]).value[1] :
                f \in {g \in Discovered : process_image(g, disk[g]).value # None}}

\* C7 witness: two geotagged files completed against the submission order
C7_Witness ==
    /\ pc = "done"
    /\ Len(data) = 2
    /\ data[1].filename = jpegs[2]
    /\ data[2].filename = jpegs[1]

\* C8: once future.result() has raised, the run is unwinding or has failed:
\* the output file is not written, whatever records were collected before,
\* the completion message is not printed and the exit status is not 0.
C8_FaultAbortsBatch ==
    (\E i \in yielded : futures[i].outcome[1].exc # "") =>
        /\ pc \in {"unwind", "failed"}
        /\ Unwritten
        /\ ~Printed("Geopackage has been created.")
        /\ exit_code = IF pc = "failed" THEN Some(1) ELSE None

\* C8 witness: a record was collected, then a result raised; the run failed
C8_Witness ==
    /\ pc = "failed"
    /\ data # <<>>
    /\ \E i \in yielded : futures[i].outcome[1].exc = "ValueError"
    /\ Unwritten

\* C9: find_jpegs returns, each once, exactly the paths of the files (of any
\* directory of the tree, never a directory) named a.jpg, b.JPEG or d.jpg
\* among a.jpg, b.JPEG, c.png, d.jpg and jpg; over the tree a.jpg, b.JPEG,
\* c.png, sub/d.jpg exactly r/a.jpg, r/b.JPEG and r/sub/d.jpg.
C9_FindJpegsExact ==
    w_pc = "returned" =>
        /\ \A i, j \in DOMAIN w_jpegs : w_jpegs[i] = w_jpegs[j] => i = j
        /\ Rows(w_jpegs) =
              UNION {{p \o <<"/">> \o n :
                         n \in {a_jpg, b_JPEG, d_jpg} \cap Rows(tree[p].files)} :
                     p \in DOMAIN tree}
        /\ tree = Tree(1, (0 :> {a_jpg, b_JPEG, c_png} @@ 1 :> {d_jpg}), 0) =>
              /\ Len(w_jpegs) = 3
              /\ Rows(w_jpegs) =
                    {<<"r", "/", "a", ".", "j", "p", "g">>,
                     <<"r", "/", "b", ".", "J", "P", "E", "G">>,
                     <<"r", "/", "s", "u", "b", "/", "d", ".", "j", "p", "g">>}

\* C9 witness: the walk of the tree a.jpg, b.JPEG, c.png, sub/d.jpg returned
C9_Witness ==
    /\ w_pc = "returned"
    /\ tree = Tree(1, (0 :> {a_jpg, b_JPEG, c_png} @@ 1 :> {d_jpg}), 0)
    /\ Len(w_jpegs) = 3

\* C10: the output file is written at most once, with all the collected
\* records at once, and only when every submitted task has finished and its
\* result has been collected; before that nothing is persisted.
C10_SingleFinalWrite ==
    /\ writes <= 1
    /\ pc \notin {"created", "done"} => Unwritten
    /\ ~Unwritten =>
          /\ writes = 1
          /\ Len(futures) = Len(jpegs)
          /\ \A i \in Indexes : futures[i].state = "FINISHED"
          /\ yielded = Indexes
          /\ outfile.rows = data

\* C10 witness: the file is written after both tasks were collected
C10_Witness ==
    /\ writes = 1
    /\ Len(jpegs) = 2
    /\ outfile.kind = "gpkg"
    /\ yielded = {1, 2}

===========================================================================
